---- MODULE Spec2Model ----
(***************************************************************************)
(* A model of app.py: the hourly scheduler thread, the manual "Run Now"    *)
(* trigger, run_once_and_append over the Google Sheet, discover_shorts     *)
(* with retry_youtube_call, and the start-once guard of the scheduler.     *)
(*                                                                         *)
(* Instants are whole seconds of UTC counted from 2025-01-01T00:00:00Z.    *)
(* Every cell of the sheet is a string, as gspread returns it.             *)
(***************************************************************************)
EXTENDS Integers, Sequences, FiniteSets, TLC

\* ------------------------------------------------------------------ bounds

\* Seconds the host clock advances in a behaviour.
MaxTicks == 1
\* Invocations of run_once_and_append in a behaviour.
MaxRuns == 3
\* Streamlit script threads that press "Run Now" (thread 0 is the scheduler).
MaxUi == 1
\* Browser sessions of the process, and script runs in a behaviour.
MaxSessions == 2
MaxScriptRuns == 3
\* Channels of CHANNEL_IDS (the program lists nine), pages of an uploads
\* playlist and items of a page.
NumChannels == 2
MaxPages == 2
MaxPageItems == 1
\* Hour boundaries the host clock reaches in a behaviour of the scheduler.
MaxHours == 2

\* ------------------------------------------------------- program constants

\* timedelta(hours=5, minutes=30), in seconds.
IstOffset == 19800
HourSecs == 3600
DaySecs == 86400

\* The clock starts one second before the host's hour boundary 06:00:00Z.
ClockStart == 6 * HourSecs - 1

Header ==
  << "video_id", "channel_title", "published_at", "timestamp", "viewCount",
     "likeCount", "commentCount", "vph", "engagement_rate" >>

\* ------------------------------------------------------------ input sets

VideoIds == {"a", "b"}
\* What the API can report of each video: the channel title and the publish
\* instant (video "a": the channel is renamed and the instant corrected between
\* two calls).
ApiReports ==
  [vid \in VideoIds |->
     IF vid = "a"
       THEN { [title |-> "Chan A", published |-> ClockStart - 1],
              [title |-> "Chan B", published |-> ClockStart] }
       ELSE { [title |-> "Chan B", published |-> ClockStart - 1] }]
\* The counters videos().list(part="statistics") reports of each video.
ApiCounters ==
  [vid \in VideoIds |->
     IF vid = "a"
       THEN [viewCount |-> 4, likeCount |-> 1, commentCount |-> 1]
       ELSE [viewCount |-> 0, likeCount |-> 1, commentCount |-> 0]]

Sessions == 1 .. MaxSessions
Threads == 0 .. MaxUi
SchedThread == 0

\* The empty mapping (a dict with no key).
EmptyMap == << >>

\* ------------------------------------------------- formatting and parsing

Digit(d) == << "0", "1", "2", "3", "4", "5", "6", "7", "8", "9" >>[d + 1]

RECURSIVE IntStr(_)
\* str(n) of a non-negative int.
IntStr(n) == IF n < 10 THEN Digit(n) ELSE IntStr(n \div 10) \o Digit(n % 10)

\* "%02d"
Two(n) == Digit((n \div 10) % 10) \o Digit(n % 10)

\* "%H:%M:%S" of a second of the day.
ClockStr(sec) ==
  Two(sec \div HourSecs) \o ":" \o Two((sec % HourSecs) \div 60) \o ":" \o Two(sec % 60)

\* dt.astimezone(ist_tz).strftime("%d/%m/%Y %H:%M:%S") of a UTC instant of
\* December 2024 or January 2025.
StrfTime(t) ==
  LET local == t + IstOffset
      day == local \div DaySecs
  IN  (IF day < 0 THEN Two(32 + day) \o "/12/2024 " ELSE Two(day + 1) \o "/01/2025 ")
        \o ClockStr(local % DaySecs)

\* The instants a stored string can denote in a behaviour.
ParseRange == (ClockStart - 2) .. (ClockStart + MaxTicks + 1)

\* datetime.strptime(s, "%d/%m/%Y %H:%M:%S").replace(tzinfo=ist_tz)
\* .astimezone(timezone.utc): the set holding the instant, empty when strptime
\* raises.
StrpTime(s) == { t \in ParseRange : StrfTime(t) = s }

\* round(num / den) for num >= 0, den > 0.
RoundDiv(num, den) == (2 * num + den) \div (2 * den)

\* f"{num/den:.2f}"
Fixed2(num, den) ==
  LET q == RoundDiv(100 * num, den)
  IN  IntStr(q \div 100) \o "." \o Two(q % 100)

\* f"{num/den:.4f}"
Fixed4(num, den) ==
  LET q == RoundDiv(10000 * num, den)
  IN  IntStr(q \div 10000) \o "." \o Two((q % 10000) \div 100) \o Two(q % 100)

\* max((now - published).total_seconds() / 3600.0, 1/3600.0), in seconds.
DeltaSecs(now, published) == IF now - published > 1 THEN now - published ELSE 1

\* The one that leaves the comments out of the engagement rate.
BuildRowLikesOnly(vid, channel, published, timestamp_str, now, st) ==
  << vid, channel, StrfTime(published), timestamp_str,
     IntStr(st.viewCount), IntStr(st.likeCount), IntStr(st.commentCount),
     Fixed2(st.viewCount * HourSecs, DeltaSecs(now, published)),
     IF st.viewCount > 0 THEN Fixed4(st.likeCount, st.viewCount) ELSE "0.0000" >>

\* One row of new_rows.
BuildRow(vid, channel, published, timestamp_str, now, st) ==
  << vid, channel, StrfTime(published), timestamp_str,
     IntStr(st.viewCount), IntStr(st.likeCount), IntStr(st.commentCount),
     Fixed2(st.viewCount * HourSecs, DeltaSecs(now, published)),
     IF st.viewCount > 0
       THEN Fixed4(st.likeCount + st.commentCount, st.viewCount)
       ELSE "0.0000" >>

\* ---------------------------------------------------------------- state

VARIABLES
  sheet,        \* the worksheet: every row, the header row first
  now,          \* the host clock, a UTC instant
  runs,         \* invocations of run_once_and_append so far
  pc,           \* each thread's position
  next_hour,    \* the scheduler's wake-up instant
  rows,         \* each run's local rows
  tracked_ids,  \* each run's local tracked_ids
  chan_past,    \* each run's local video_to_channel_past
  pub_past,     \* each run's local video_to_published_past
  no_shorts,    \* each run's local no_shorts_flag
  stats,        \* each run's local stats
  filtered,     \* each run's local filtered_rows
  outcome,      \* how each thread's latest run ended (its last message)
  \* History, read by no action:
  sheet0,       \* the sheet when each run in progress began
  solo,         \* whether each run in progress has overlapped no other run
  ever_tracked, \* the ids that were in the tracked-set of some run
  owed,         \* ever_tracked when each run in progress began
  last_skipped, \* the ids the latest run skipped in Step 4
  owed_skip,    \* last_skipped when each run in progress began
  first_meta,   \* channel and published_at of each id's first appended row
  sched_runs    \* calls of run_once_and_append made by scheduler_loop

locals == << rows, tracked_ids, chan_past, pub_past, no_shorts, stats, filtered >>

history ==
  << sheet0, solo, ever_tracked, owed, last_skipped, owed_skip, first_meta,
     sched_runs >>

run_vars == << sheet, now, runs, pc, next_hour, locals, outcome, history >>

\* The start of the scheduler thread by the script runs of the sessions.
VARIABLES
  scheduler_thread,  \* the module global _scheduler_thread: 0 is None
  scheduler_started, \* each session's st.session_state.scheduler_started
  script_line,       \* the line each session's script run is at, 0 when none runs
  script_runs,       \* script runs begun so far
  loops              \* the scheduler_loop threads started so far

start_vars == << scheduler_thread, scheduler_started, script_line, script_runs, loops >>

\* One call of discover_shorts().
VARIABLES
  d_pc,        \* its position
  d_idx,       \* idx of the channel loop
  d_title,     \* channel_title
  d_pages,     \* pages fetched of the channel's uploads playlist
  d_items,     \* the items of the page not yet looked at
  d_more,      \* whether list_next gives another request
  d_listed,    \* the videos the uploads playlists have listed so far
  d_vtc,       \* video_to_channel
  d_vtp,       \* video_to_published
  d_short,     \* all_short_ids
  d_ret,       \* what discover_shorts returned
  r_busy,      \* a retry_youtube_call is waiting to make its second attempt
  r_log,       \* the attempts of the latest retry_youtube_call
  r_ret,       \* what the latest retry_youtube_call returned
  \* History, read by no action:
  d_visited,   \* the channels whose info was asked for
  d_done,      \* the channels whose uploads were paged to the end
  d_fatal      \* the channel at which a channel or page fetch failed, else 0

disc_vars ==
  << d_pc, d_idx, d_title, d_pages, d_items, d_more, d_listed, d_vtc, d_vtp, d_short,
     d_ret, r_busy, r_log, r_ret, d_visited, d_done, d_fatal >>

\* One call of a pure function of the program.
VARIABLES
  f_call,      \* the function called and its arguments
  f_out        \* what it returned

bench_vars == << f_call, f_out >>

vars == << run_vars, start_vars, disc_vars, bench_vars >>

\* A run of run_once_and_append is in progress on thread t.
Active(t) == pc[t] \notin {"idle", "sleep", "dead", "unstarted"}

\* ------------------------------------------------------- the scheduler

\* now.replace(minute=0, second=0, microsecond=0) + timedelta(hours=1)
NextHour(t) == (t \div HourSecs) * HourSecs + HourSecs

\* ------------------------------------------------- reconstruction (1b)

RowIds(rs) == { rs[i][1] : i \in { j \in 1 .. Len(rs) : Len(rs[j]) >= 4 } }

\* The first row of rs that carries vid.
FirstRow(rs, vid) ==
  rs[CHOOSE i \in 1 .. Len(rs) :
       /\ Len(rs[i]) >= 4
       /\ rs[i][1] = vid
       /\ \A j \in 1 .. i - 1 : Len(rs[j]) < 4 \/ rs[j][1] # vid]

ChannelPast(rs) == [vid \in RowIds(rs) |-> FirstRow(rs, vid)[2]]

PublishedPast(rs) ==
  [vid \in { v \in RowIds(rs) : StrpTime(FirstRow(rs, v)[3]) # {} } |->
     CHOOSE t \in StrpTime(FirstRow(rs, vid)[3]) : TRUE]

ExistingPairs(rs) ==
  { << rs[i][1], rs[i][4] >> : i \in { j \in 1 .. Len(rs) : Len(rs[j]) >= 4 } }

\* all_data[1:]
DataRows(all_data) ==
  IF Len(all_data) > 1 THEN SubSeq(all_data, 2, Len(all_data)) ELSE << >>

\* `not header or len(header) < 9` of all_data[0] if all_data else [].
HeaderMissing(all_data) == Len(all_data) = 0 \/ Len(all_data[1]) < 9

\* ---------------------------------------------------------- discovery

\* What discover_shorts() returns: empty mappings with the flag set, or
\* non-empty mappings with the flag clear.
DiscoverReturns ==
  { [vtc |-> EmptyMap, vtp |-> EmptyMap, flag |-> TRUE] }
    \cup
  { [vtc |-> [vid \in DOMAIN r |-> r[vid].title],
     vtp |-> [vid \in DOMAIN r |-> r[vid].published],
     flag |-> FALSE] :
    r \in UNION { { f \in [S -> UNION { ApiReports[v] : v \in S }] :
                      \A v \in S : f[v] \in ApiReports[v] } :
                  S \in SUBSET VideoIds \ {{}} } }

\* The one that treats a failed discovery as fatal and tracks nothing.
TrackedUnionFatal(old, d) == IF d.flag THEN {} ELSE old \cup DOMAIN d.vtc

\* tracked_ids after lines 382-392: the ids of the rows read, and, when the
\* flag is clear, the discovered ids.
TrackedUnion(old, d) == old \cup (IF d.flag THEN {} ELSE DOMAIN d.vtc)

\* What fetch_statistics(ids) returns: counters of the ids the API answered for.
StatsReturns(ids) ==
  { [vid \in S |-> ApiCounters[vid]] : S \in SUBSET (ids \cap VideoIds) }

\* list(tracked_ids): the ids in the order the process's string hashing gives,
\* here "a" before "b" before any other.
Rank(vid) == IF vid = "a" THEN 1 ELSE IF vid = "b" THEN 2 ELSE 3
AllIds(S) ==
  CHOOSE s \in [1 .. Cardinality(S) -> S] :
    \A i, j \in 1 .. Cardinality(S) : i < j => Rank(s[i]) < Rank(s[j])

\* What datetime.now(timezone.utc) of line 435 can read while n rows are built
\* from the instant t_now on: the clock does not go back, and advances as far
\* as it advances in a behaviour.
ClockReadings(t_now, n) ==
  { r \in [1 .. n -> t_now .. (IF t_now < ClockStart + MaxTicks
                                 THEN ClockStart + MaxTicks ELSE t_now)] :
      \A i, j \in 1 .. n : i < j => r[i] <= r[j] }

\* The one that stamps each row with the instant it is built at.
NewRowsStampedEach(all_ids, st, chan, pub, timestamp_str, t_rows) ==
  LET F[i \in 0 .. Len(all_ids)] ==
        IF i = 0 THEN << >>
        ELSE LET vid == all_ids[i]
             IN  IF vid \notin DOMAIN st \/ vid \notin DOMAIN pub THEN F[i - 1]
                 ELSE Append(F[i - 1],
                        BuildRow(vid,
                                 IF vid \in DOMAIN chan THEN chan[vid] ELSE "N/A",
                                 pub[vid], StrfTime(t_rows[i]), t_rows[i], st[vid]))
  IN  F[Len(all_ids)]

\* new_rows (Step 4): one row per id of all_ids with counters and a publish
\* instant, in the order of all_ids; t_rows[i] is the clock read at line 435
\* for all_ids[i].
NewRows(all_ids, st, chan, pub, timestamp_str, t_rows) ==
  LET F[i \in 0 .. Len(all_ids)] ==
        IF i = 0 THEN << >>
        ELSE LET vid == all_ids[i]
             IN  IF vid \notin DOMAIN st \/ vid \notin DOMAIN pub THEN F[i - 1]
                 ELSE Append(F[i - 1],
                        BuildRow(vid,
                                 IF vid \in DOMAIN chan THEN chan[vid] ELSE "N/A",
                                 pub[vid], timestamp_str, t_rows[i], st[vid]))
  IN  F[Len(all_ids)]

\* The one that keys the filter on published_at instead of timestamp.
FilterRowsByPublished(new_rows, existing_pairs) ==
  LET F[i \in 0 .. Len(new_rows)] ==
        IF i = 0 THEN << >>
        ELSE IF << new_rows[i][1], new_rows[i][3] >> \in existing_pairs THEN F[i - 1]
        ELSE Append(F[i - 1], new_rows[i])
  IN  F[Len(new_rows)]

\* The one that filters nothing out.
FilterRowsKeepAll(new_rows, existing_pairs) == new_rows

\* filtered_rows (Step 5): the rows of new_rows whose (video_id, timestamp)
\* pair is not in existing_pairs.
FilterRows(new_rows, existing_pairs) ==
  LET F[i \in 0 .. Len(new_rows)] ==
        IF i = 0 THEN << >>
        ELSE IF << new_rows[i][1], new_rows[i][4] >> \in existing_pairs THEN F[i - 1]
        ELSE Append(F[i - 1], new_rows[i])
  IN  F[Len(new_rows)]

\* ---------------------------------------------------------------- Init

\* No run has begun; the scheduler thread is at `sched`.
InitLocals(sched) ==
  /\ now = ClockStart
  /\ runs = 0
  /\ pc = [t \in Threads |-> IF t = SchedThread THEN sched ELSE "idle"]
  /\ next_hour = NextHour(ClockStart)
  /\ rows = [t \in Threads |-> << >>]
  /\ tracked_ids = [t \in Threads |-> {}]
  /\ chan_past = [t \in Threads |-> EmptyMap]
  /\ pub_past = [t \in Threads |-> EmptyMap]
  /\ no_shorts = [t \in Threads |-> FALSE]
  /\ stats = [t \in Threads |-> EmptyMap]
  /\ filtered = [t \in Threads |-> << >>]
  /\ outcome = [t \in Threads |-> "none"]
  /\ sheet0 = [t \in Threads |-> << >>]
  /\ solo = [t \in Threads |-> FALSE]
  /\ ever_tracked = {}
  /\ owed = [t \in Threads |-> {}]
  /\ last_skipped = {}
  /\ owed_skip = [t \in Threads |-> {}]
  /\ first_meta = EmptyMap
  /\ sched_runs = 0

InitRun(sched) ==
  /\ sheet \in { << >>, << Header >> }
  /\ InitLocals(sched)

\* A worksheet of an earlier layout, as line 328 provides for: its rows have
\* fewer than 9 cells (get_all_values() returns rows of one width).
LegacyHeader == SubSeq(Header, 1, 7)

LegacyRow ==
  << "a", "Chan A", StrfTime(ClockStart - 1), StrfTime(ClockStart - 1), "4", "1", "1" >>

\* ------------------------------------------------------------- actions

\* The locals of a run that has returned are gone.
Forget(t) ==
  /\ rows' = [rows EXCEPT ![t] = << >>]
  /\ tracked_ids' = [tracked_ids EXCEPT ![t] = {}]
  /\ chan_past' = [chan_past EXCEPT ![t] = EmptyMap]
  /\ pub_past' = [pub_past EXCEPT ![t] = EmptyMap]
  /\ no_shorts' = [no_shorts EXCEPT ![t] = FALSE]
  /\ stats' = [stats EXCEPT ![t] = EmptyMap]
  /\ filtered' = [filtered EXCEPT ![t] = << >>]
  /\ sheet0' = [sheet0 EXCEPT ![t] = << >>]
  /\ owed' = [owed EXCEPT ![t] = {}]
  /\ owed_skip' = [owed_skip EXCEPT ![t] = {}]
  /\ solo' = [solo EXCEPT ![t] = FALSE]

\* run_once_and_append returns at the instant t_now after
\* st.error/st.warning/st.info `msg`; the scheduler loop then computes its
\* next wake-up.
ReturnAt(t, msg, t_now) ==
  /\ pc' = [pc EXCEPT ![t] = IF t = SchedThread THEN "sleep" ELSE "idle"]
  /\ next_hour' = IF t = SchedThread THEN NextHour(t_now) ELSE next_hour
  /\ outcome' = [outcome EXCEPT ![t] = msg]
  /\ Forget(t)

Return(t, msg) == ReturnAt(t, msg, now)

\* An exception leaves run_once_and_append: it ends the scheduler thread
\* (scheduler_loop catches nothing) or the script run of a session.
Raise(t) ==
  /\ pc' = [pc EXCEPT ![t] = IF t = SchedThread THEN "dead" ELSE "idle"]
  /\ outcome' = [outcome EXCEPT ![t] = "raised"]
  /\ Forget(t)
  /\ UNCHANGED next_hour

\* The run goes on to position `to`.
Goto(t, to) ==
  /\ pc' = [pc EXCEPT ![t] = to]
  /\ UNCHANGED << next_hour, outcome >>

\* Lines 311-315: the run begins; get_worksheet() may return None.
Begin(t) ==
  /\ runs < MaxRuns
  /\ runs' = runs + 1
  /\ \/ /\ pc' = [pc EXCEPT ![t] = "read"]
        /\ outcome' = [outcome EXCEPT ![t] = "running"]
        /\ sheet0' = [sheet0 EXCEPT ![t] = sheet]
        /\ owed' = [owed EXCEPT ![t] = ever_tracked]
        /\ owed_skip' = [owed_skip EXCEPT ![t] = last_skipped]
        /\ solo' = [u \in Threads |->
                      IF u = t THEN \A v \in Threads \ {t} : ~Active(v) ELSE FALSE]
        /\ UNCHANGED << next_hour, locals >>
     \/ Return(t, "no_ws")
  /\ last_skipped' = {}
  /\ sched_runs' = IF t = SchedThread THEN sched_runs + 1 ELSE sched_runs
  /\ UNCHANGED << sheet, now, ever_tracked, first_meta >>
  /\ UNCHANGED << start_vars, disc_vars, bench_vars >>

\* scheduler_loop, lines 22-30: the sleep ends at the hour boundary and the
\* loop calls run_once_and_append().
SchedulerWake ==
  /\ pc[SchedThread] = "sleep"
  /\ now >= next_hour
  /\ Begin(SchedThread)

\* Line 507-508: the button of a session's script run.
RunNow(t) ==
  /\ t # SchedThread
  /\ pc[t] = "idle"
  /\ Begin(t)

\* Lines 317-328: ws.get_all_values(), header and rows.
ReadSheet(t) ==
  /\ pc[t] = "read"
  /\ \/ Return(t, "read_err")
     \/ /\ rows' = [rows EXCEPT ![t] = DataRows(sheet)]
        /\ Goto(t, IF HeaderMissing(sheet) THEN "clear" ELSE "discover")
        /\ UNCHANGED << tracked_ids, chan_past, pub_past, no_shorts, stats, filtered,
                        sheet0, owed, owed_skip, solo >>
  /\ UNCHANGED << sheet, now, runs, ever_tracked, last_skipped, first_meta >>
  /\ UNCHANGED << start_vars, disc_vars, bench_vars, sched_runs >>

\* Line 330: ws.clear().
ClearSheet(t) ==
  /\ pc[t] = "clear"
  /\ \/ /\ Return(t, "hdr_err")
        /\ UNCHANGED sheet
     \/ /\ sheet' = << >>
        /\ Goto(t, "hdr")
        /\ UNCHANGED << locals, sheet0, owed, owed_skip, solo >>
  /\ UNCHANGED << now, runs, ever_tracked, last_skipped, first_meta >>
  /\ UNCHANGED << start_vars, disc_vars, bench_vars, sched_runs >>

\* Lines 331-341: ws.append_row(header), after the last row of the sheet.
AppendHeader(t) ==
  /\ pc[t] = "hdr"
  /\ \/ /\ Return(t, "hdr_err")
        /\ UNCHANGED sheet
     \/ /\ sheet' = Append(sheet, Header)
        /\ Goto(t, "reread")
        /\ UNCHANGED << locals, sheet0, owed, owed_skip, solo >>
  /\ UNCHANGED << now, runs, ever_tracked, last_skipped, first_meta >>
  /\ UNCHANGED << start_vars, disc_vars, bench_vars, sched_runs >>

\* Lines 342-348: the second ws.get_all_values(); all_data[0] of an empty
\* sheet raises IndexError, which the except clause reports.
RereadSheet(t) ==
  /\ pc[t] = "reread"
  /\ \/ Return(t, "hdr_err")
     \/ /\ Len(sheet) > 0
        /\ rows' = [rows EXCEPT ![t] = Tail(sheet)]
        /\ Goto(t, "discover")
        /\ UNCHANGED << tracked_ids, chan_past, pub_past, no_shorts, stats, filtered,
                        sheet0, owed, owed_skip, solo >>
  /\ UNCHANGED << sheet, now, runs, ever_tracked, last_skipped, first_meta >>
  /\ UNCHANGED << start_vars, disc_vars, bench_vars, sched_runs >>

\* Lines 350-396: the tracked-set of the rows read, discover_shorts(), the
\* union, and the return when nothing is tracked.
Discover(t) ==
  /\ pc[t] = "discover"
  /\ \/ /\ Raise(t)
        /\ UNCHANGED ever_tracked
     \/ \E d \in DiscoverReturns :
          LET old == RowIds(rows[t])
              chan == ChannelPast(rows[t])
              pub == PublishedPast(rows[t])
              all == TrackedUnion(old, d)
              added == all \ old
          IN  IF all = {}
                THEN /\ Return(t, "no_tracked")
                     /\ UNCHANGED ever_tracked
                ELSE /\ ever_tracked' = ever_tracked \cup all
                     /\ tracked_ids' = [tracked_ids EXCEPT ![t] = all]
                     /\ chan_past' =
                          [chan_past EXCEPT ![t] =
                             [vid \in all |->
                                IF vid \in added THEN d.vtc[vid] ELSE chan[vid]]]
                     /\ pub_past' =
                          [pub_past EXCEPT ![t] =
                             [vid \in (DOMAIN pub \cap all) \cup added |->
                                IF vid \in added THEN d.vtp[vid] ELSE pub[vid]]]
                     /\ no_shorts' = [no_shorts EXCEPT ![t] = d.flag]
                     /\ Goto(t, "fetch")
                     /\ UNCHANGED << rows, stats, filtered, sheet0, owed, owed_skip, solo >>
  /\ UNCHANGED << sheet, now, runs, last_skipped, first_meta >>
  /\ UNCHANGED << start_vars, disc_vars, bench_vars, sched_runs >>

\* Lines 398-474: fetch_statistics(all_ids), the timestamp, new_rows and
\* filtered_rows.
FetchAndBuild(t) ==
  /\ pc[t] = "fetch"
  /\ \/ /\ Raise(t)
        /\ UNCHANGED << now, last_skipped >>
     \/ \E st \in StatsReturns(tracked_ids[t]),
           t_rows \in ClockReadings(now, Cardinality(tracked_ids[t])) :
          LET timestamp_str == StrfTime(now)
              new_rows == NewRows(AllIds(tracked_ids[t]), st, chan_past[t],
                                  pub_past[t], timestamp_str, t_rows)
              kept == FilterRows(new_rows, ExistingPairs(rows[t]))
              skipped == { vid \in tracked_ids[t] :
                             vid \notin DOMAIN st \/ vid \notin DOMAIN pub_past[t] }
          IN  IF st = EmptyMap
                THEN /\ Return(t, "no_stats")
                     /\ UNCHANGED << now, last_skipped >>
                ELSE /\ last_skipped' = skipped
                     /\ now' = IF new_rows = << >> THEN now
                                ELSE t_rows[Cardinality(tracked_ids[t])]
                     /\ IF kept = << >>
                          THEN ReturnAt(t, "all_dup", now')
                          ELSE /\ stats' = [stats EXCEPT ![t] = st]
                               /\ filtered' = [filtered EXCEPT ![t] = kept]
                               /\ Goto(t, "append")
                               /\ UNCHANGED << rows, tracked_ids, chan_past, pub_past,
                                               no_shorts, sheet0, owed, owed_skip, solo >>
  /\ UNCHANGED << sheet, runs, ever_tracked, first_meta >>
  /\ UNCHANGED << start_vars, disc_vars, bench_vars, sched_runs >>

\* Lines 476-482: ws.append_rows(filtered_rows), one batch.
AppendRows(t) ==
  /\ pc[t] = "append"
  /\ \/ /\ Return(t, "append_err")
        /\ UNCHANGED << sheet, first_meta >>
     \/ /\ sheet' = sheet \o filtered[t]
        /\ first_meta' =
             [vid \in DOMAIN first_meta \cup RowIds(filtered[t]) |->
                IF vid \in DOMAIN first_meta THEN first_meta[vid]
                ELSE << FirstRow(filtered[t], vid)[2], FirstRow(filtered[t], vid)[3] >>]
        /\ Return(t, "appended")
  /\ UNCHANGED << now, runs, ever_tracked, last_skipped >>
  /\ UNCHANGED << start_vars, disc_vars, bench_vars, sched_runs >>

\* The host clock advances by a second.
Tick ==
  /\ now < ClockStart + MaxTicks
  /\ now' = now + 1
  /\ UNCHANGED << sheet, runs, pc, next_hour, locals, outcome, history >>
  /\ UNCHANGED << start_vars, disc_vars, bench_vars >>

NextRun ==
  \/ Tick
  \/ SchedulerWake
  \/ \E t \in Threads :
       \/ RunNow(t)
       \/ ReadSheet(t)
       \/ ClearSheet(t)
       \/ AppendHeader(t)
       \/ RereadSheet(t)
       \/ Discover(t)
       \/ FetchAndBuild(t)
       \/ AppendRows(t)

\* ------------------------------------------- starting the scheduler thread

\* A fresh process: no script has run.
InitStart ==
  /\ scheduler_thread = 0
  /\ scheduler_started = [s \in Sessions |-> FALSE]
  /\ script_line = [s \in Sessions |-> 0]
  /\ script_runs = 0
  /\ loops = 0

\* The process after the first session's first script run.
InitStarted ==
  /\ scheduler_thread = 1
  /\ scheduler_started = [s \in Sessions |-> s = 1]
  /\ script_line = [s \in Sessions |-> 0]
  /\ script_runs = 1
  /\ loops = 1

ScriptGoto(s, line) == script_line' = [script_line EXCEPT ![s] = line]

\* Streamlit runs the script from its first line: a page load or a widget event
\* of session s.
ScriptRun(s) ==
  /\ script_line[s] = 0
  /\ script_runs < MaxScriptRuns
  /\ script_runs' = script_runs + 1
  /\ ScriptGoto(s, 32)
  /\ UNCHANGED << scheduler_thread, scheduler_started, loops, run_vars, disc_vars,
                  bench_vars >>

\* Line 32: _scheduler_thread = None.
Line32(s) ==
  /\ script_line[s] = 32
  /\ scheduler_thread' = 0
  /\ ScriptGoto(s, 488)
  /\ UNCHANGED << scheduler_started, script_runs, loops, run_vars, disc_vars,
                  bench_vars >>

\* Line 488: if "scheduler_started" not in st.session_state; the rest of the
\* script starts no thread.
Line488(s) ==
  /\ script_line[s] = 488
  /\ ScriptGoto(s, IF scheduler_started[s] THEN 0 ELSE 39)
  /\ UNCHANGED << scheduler_thread, scheduler_started, script_runs, loops, run_vars,
                  disc_vars, bench_vars >>

\* Line 39 of start_scheduler_thread: if _scheduler_thread is None.
Line39(s) ==
  /\ script_line[s] = 39
  /\ ScriptGoto(s, IF scheduler_thread = 0 THEN 40 ELSE 490)
  /\ UNCHANGED << scheduler_thread, scheduler_started, script_runs, loops, run_vars,
                  disc_vars, bench_vars >>

\* Lines 40-41: a new Thread(target=scheduler_loop) is stored and started.
Line40(s) ==
  /\ script_line[s] = 40
  /\ loops' = loops + 1
  /\ scheduler_thread' = loops + 1
  /\ ScriptGoto(s, 490)
  /\ UNCHANGED << scheduler_started, script_runs, run_vars, disc_vars, bench_vars >>

\* Line 490: st.session_state.scheduler_started = True.
Line490(s) ==
  /\ script_line[s] = 490
  /\ scheduler_started' = [scheduler_started EXCEPT ![s] = TRUE]
  /\ ScriptGoto(s, 0)
  /\ UNCHANGED << scheduler_thread, script_runs, loops, run_vars, disc_vars,
                  bench_vars >>

NextStart ==
  \E s \in Sessions :
    \/ ScriptRun(s)
    \/ Line32(s)
    \/ Line488(s)
    \/ Line39(s)
    \/ Line40(s)
    \/ Line490(s)

\* -------------------------------------------------------- discover_shorts

\* An RFC 3339 UTC timestamp, "YYYY-MM-DDThh:mm:ssZ", of an instant of
\* December 2024 or January 2025.
Rfc3339(t) ==
  LET day == t \div DaySecs
  IN  (IF day < 0 THEN "2024-12-" \o Two(32 + day) ELSE "2025-01-" \o Two(day + 1))
        \o "T" \o ClockStr(t % DaySecs) \o "Z"

\* The one that takes the date of the UTC clock.
MidnightUtc(t_now) == (t_now \div DaySecs) * DaySecs

\* get_midnight_ist_utc() at the instant t_now: 00:00:00 IST of the IST date.
MidnightIstUtc(t_now) == ((t_now + IstOffset) \div DaySecs) * DaySecs - IstOffset

\* The instants a publishedAt string of the API can denote in a behaviour.
IsoInstants ==
  { MidnightIstUtc(ClockStart) - 1, ClockStart - 1 }

\* The instants at which is_within_today is called on its own: the start of
\* the clock, and the last second of an IST day and the first of the next.
CallInstants == { ClockStart, DaySecs - IstOffset - 1, DaySecs - IstOffset }

\* The instants it is called on: around both ends of the windows of CallInstants.
WindowInstants ==
  UNION { { m - 1, m, m + 1, m + DaySecs - 1, m + DaySecs } :
            m \in { 0 - IstOffset, DaySecs - IstOffset } }

\* The instants an RFC 3339 string can denote in a behaviour.
IsoRange == IsoInstants \cup WindowInstants

\* datetime.fromisoformat(s.replace("Z", "+00:00")).astimezone(timezone.utc):
\* the set holding the instant, empty when fromisoformat raises.
FromIso(s) == { t \in IsoRange : Rfc3339(t) = s }

\* is_within_today(published_at_str) at the instant t_now.
IsWithinToday(published_at_str, t_now) ==
  \E pub_dt \in FromIso(published_at_str) :
    /\ MidnightIstUtc(t_now) <= pub_dt
    /\ pub_dt < MidnightIstUtc(t_now) + DaySecs

\* The publishedAt strings the API reports.
IsoInputs == { Rfc3339(t) : t \in IsoInstants } \cup { "not a time" }

\* parse_duration(duration_str).total_seconds() of the durations the API
\* reports: the set holding the seconds, empty when parse_duration raises.
ParseDuration(duration_str) ==
  IF duration_str = "PT3M" THEN {180}
  ELSE IF duration_str = "PT3M1S" THEN {181}
  ELSE {}

DurationInputs == { "PT3M", "PT3M1S", "three minutes" }

\* iso8601_to_seconds(duration_str)
Iso8601ToSeconds(duration_str) ==
  IF ParseDuration(duration_str) = {} THEN 0
  ELSE CHOOSE secs \in ParseDuration(duration_str) : TRUE

\* The threshold of line 250.
ShortLimit == 180

\* The one that takes "under three minutes" for the limit.
IsShortFormStrict(duration_str) == Iso8601ToSeconds(duration_str) < ShortLimit

\* Lines 249-250: duration_secs <= 180 of iso8601_to_seconds(duration).
IsShortForm(duration_str) == Iso8601ToSeconds(duration_str) <= ShortLimit

\* What retry_youtube_call returns: None, or a response (its items, and
\* whether list_next of it gives another request).
None == [none |-> TRUE, items |-> << >>, more |-> FALSE]
Response(items, more) == [none |-> FALSE, items |-> items, more |-> more]

\* What one execute() can do: answer, raise HttpError, raise another exception.
Attempts(responses) ==
  { [status |-> "ok", resp |-> r] : r \in responses }
    \cup { [status |-> "HttpError", resp |-> None], [status |-> "Exception", resp |-> None] }

\* The one that sleeps and tries again after every HttpError.
RetryYoutubeCallUnbounded(prior, attempt) ==
  IF attempt.status = "Exception" THEN [state |-> "raised", ret |-> None]
  ELSE IF attempt.status = "ok" THEN [state |-> "returned", ret |-> attempt.resp]
  ELSE [state |-> "retry", ret |-> None]

\* retry_youtube_call after one more execute(), `prior` being its earlier
\* attempts: it returns the response; on HttpError it sleeps and tries again if
\* this was the first attempt and returns None if it was the second; any other
\* exception leaves it.
RetryYoutubeCall(prior, attempt) ==
  IF attempt.status = "Exception" THEN [state |-> "raised", ret |-> None]
  ELSE IF attempt.status = "ok" THEN [state |-> "returned", ret |-> attempt.resp]
  ELSE IF Len(prior) = 0 THEN [state |-> "retry", ret |-> None]
  ELSE [state |-> "returned", ret |-> None]

\* The title channels().list reports of the idx-th channel.
ChannelTitleOf(idx) == IF idx = 1 THEN "Chan A" ELSE "Chan B"

ChannelResponses(idx) ==
  { Response(<< >>, FALSE), Response(<< [title |-> ChannelTitleOf(idx)] >>, FALSE) }

PlaylistItems == [videoId : VideoIds, publishedAt : IsoInputs]

\* The pages playlistItems() can answer with after `pages` pages of the
\* channel: an uploads playlist lists a video once, and a video is an upload of
\* one channel, so a page holds videos that no page has listed yet.
PageResponses(pages, listed) ==
  { Response(items, more) :
      items \in { s \in UNION { [1 .. n -> PlaylistItems] : n \in 0 .. MaxPageItems } :
                   /\ \A i \in 1 .. Len(s) : s[i].videoId \notin listed
                   /\ \A i, j \in 1 .. Len(s) : i < j => s[i].videoId # s[j].videoId },
      more \in { m \in BOOLEAN : m => pages + 1 < MaxPages } }

DetailResponses ==
  { Response(<< >>, FALSE) }
    \cup { Response(<< [duration |-> d, publishedAt |-> p] >>, FALSE) :
             d \in DurationInputs, p \in IsoInputs }

\* The one that hands back what was found before the failure.
PartialReturn(vtc, vtp) == [vtc |-> vtc, vtp |-> vtp, flag |-> TRUE]

\* Lines 215 and 231: return {}, {}, logs, True.
FailReturn(vtc, vtp) == [vtc |-> EmptyMap, vtp |-> EmptyMap, flag |-> TRUE]

\* Lines 262-267.
FinalReturn(vtc, vtp, all_short_ids) ==
  IF all_short_ids = << >>
    THEN [vtc |-> EmptyMap, vtp |-> EmptyMap, flag |-> TRUE]
    ELSE [vtc |-> vtc, vtp |-> vtp, flag |-> FALSE]

InitDisc ==
  /\ d_pc = "channels"
  /\ d_idx = 1
  /\ d_title = ""
  /\ d_pages = 0
  /\ d_items = << >>
  /\ d_more = FALSE
  /\ d_listed = {}
  /\ d_vtc = EmptyMap
  /\ d_vtp = EmptyMap
  /\ d_short = << >>
  /\ d_ret = [vtc |-> EmptyMap, vtp |-> EmptyMap, flag |-> FALSE]
  /\ r_busy = FALSE
  /\ r_log = << >>
  /\ r_ret = None
  /\ d_visited = {1}
  /\ d_done = {}
  /\ d_fatal = 0

\* retry_youtube_call in progress after one more execute().
Call(attempt) == RetryYoutubeCall(IF r_busy THEN r_log ELSE << >>, attempt)

\* One execute() of the retry_youtube_call in progress (a new call when none
\* is waiting for its second attempt).
Execute(attempt) ==
  /\ r_log' = Append(IF r_busy THEN r_log ELSE << >>, attempt)
  /\ r_busy' = (Call(attempt).state = "retry")
  /\ r_ret' = Call(attempt).ret

\* The call has not returned: it sleeps before its second attempt, or the
\* exception leaves retry_youtube_call and discover_shorts.
NotReturned(attempt) ==
  /\ d_pc' = IF Call(attempt).state = "raised" THEN "raised" ELSE d_pc
  /\ UNCHANGED << d_idx, d_title, d_pages, d_items, d_more, d_listed, d_vtc, d_vtp,
                  d_short, d_ret, d_visited, d_done, d_fatal >>

\* Lines 215 and 231: discovery is given up at the channel d_idx.
GiveUp ==
  /\ d_ret' = FailReturn(d_vtc, d_vtp)
  /\ d_pc' = "returned"
  /\ d_fatal' = d_idx
  /\ UNCHANGED << d_idx, d_title, d_pages, d_items, d_more, d_listed, d_vtc, d_vtp,
                  d_short, d_visited, d_done >>

\* Lines 213-226, after channels().list of the channel.
AfterChannelsList(ch_resp) ==
  IF ch_resp.none \/ ch_resp.items = << >>
    THEN GiveUp
    ELSE /\ d_title' = ch_resp.items[1].title
         /\ d_pages' = 0
         /\ d_pc' = "page"
         /\ UNCHANGED << d_idx, d_items, d_more, d_listed, d_vtc, d_vtp, d_short, d_ret,
                         d_visited, d_done, d_fatal >>

\* Lines 208-212.
ChannelsList ==
  /\ d_pc = "channels"
  /\ \E attempt \in Attempts(ChannelResponses(d_idx)) :
       /\ Execute(attempt)
       /\ IF Call(attempt).state = "returned"
            THEN AfterChannelsList(Call(attempt).ret)
            ELSE NotReturned(attempt)
  /\ UNCHANGED << run_vars, start_vars, bench_vars >>

\* Lines 229-233, after a page of playlistItems().
AfterPlaylistPage(pl_resp) ==
  IF pl_resp.none
    THEN GiveUp
    ELSE /\ d_items' = pl_resp.items
         /\ d_more' = pl_resp.more
         /\ d_pages' = d_pages + 1
         /\ d_listed' = d_listed \cup { pl_resp.items[i].videoId : i \in 1 .. Len(pl_resp.items) }
         /\ d_pc' = "item"
         /\ UNCHANGED << d_idx, d_title, d_vtc, d_vtp, d_short, d_ret, d_visited,
                         d_done, d_fatal >>

\* Line 228.
PlaylistPage ==
  /\ d_pc = "page"
  /\ \E attempt \in Attempts(PageResponses(d_pages, d_listed)) :
       /\ Execute(attempt)
       /\ IF Call(attempt).state = "returned"
            THEN AfterPlaylistPage(Call(attempt).ret)
            ELSE NotReturned(attempt)
  /\ UNCHANGED << run_vars, start_vars, bench_vars >>

\* Lines 233-237 and 257-267: the next item of the page; after the last one
\* the next page, the next channel, or the return.
NextItem ==
  /\ d_pc = "item"
  /\ IF d_items # << >>
       THEN /\ IF IsWithinToday(Head(d_items).publishedAt, now)
                 THEN d_pc' = "details" /\ UNCHANGED d_items
                 ELSE d_items' = Tail(d_items) /\ UNCHANGED d_pc
            /\ UNCHANGED << d_idx, d_ret, d_visited, d_done >>
       ELSE IF d_more
         THEN /\ d_pc' = "page"
              /\ UNCHANGED << d_idx, d_items, d_ret, d_visited, d_done >>
       ELSE IF d_idx < NumChannels
         THEN /\ d_pc' = "channels"
              /\ d_idx' = d_idx + 1
              /\ d_visited' = d_visited \cup {d_idx + 1}
              /\ d_done' = d_done \cup {d_idx}
              /\ UNCHANGED << d_items, d_ret >>
       ELSE /\ d_pc' = "returned"
            /\ d_ret' = FinalReturn(d_vtc, d_vtp, d_short)
            /\ d_done' = d_done \cup {d_idx}
            /\ UNCHANGED << d_idx, d_items, d_visited >>
  /\ UNCHANGED << d_title, d_pages, d_more, d_listed, d_vtc, d_vtp, d_short, d_fatal,
                  r_busy, r_log, r_ret >>
  /\ UNCHANGED << run_vars, start_vars, bench_vars >>

\* Lines 245-255, after videos().list of the candidate.
AfterVideosList(cd_resp) ==
  LET vid_id == Head(d_items).videoId
      short == /\ ~cd_resp.none
               /\ cd_resp.items # << >>
               /\ IsShortForm(cd_resp.items[1].duration)
  IN  IF short /\ FromIso(cd_resp.items[1].publishedAt) = {}
        THEN \* line 252: fromisoformat raises ValueError
             /\ d_pc' = "raised"
             /\ UNCHANGED << d_idx, d_title, d_pages, d_items, d_more, d_listed, d_vtc,
                             d_vtp, d_short, d_ret, d_visited, d_done, d_fatal >>
        ELSE /\ d_pc' = "item"
             /\ d_items' = Tail(d_items)
             /\ IF short
                  THEN LET pub_dt == CHOOSE t \in FromIso(cd_resp.items[1].publishedAt) : TRUE
                       IN  /\ d_vtc' = [v \in DOMAIN d_vtc \cup {vid_id} |->
                                          IF v = vid_id THEN d_title ELSE d_vtc[v]]
                           /\ d_vtp' = [v \in DOMAIN d_vtp \cup {vid_id} |->
                                          IF v = vid_id THEN pub_dt ELSE d_vtp[v]]
                           /\ d_short' = Append(d_short, vid_id)
                  ELSE UNCHANGED << d_vtc, d_vtp, d_short >>
             /\ UNCHANGED << d_idx, d_title, d_pages, d_more, d_listed, d_ret, d_visited,
                             d_done, d_fatal >>

\* Lines 240-244.
VideosList ==
  /\ d_pc = "details"
  /\ \E attempt \in Attempts(DetailResponses) :
       /\ Execute(attempt)
       /\ IF Call(attempt).state = "returned"
            THEN AfterVideosList(Call(attempt).ret)
            ELSE NotReturned(attempt)
  /\ UNCHANGED << run_vars, start_vars, bench_vars >>

NextDiscover ==
  \/ ChannelsList
  \/ PlaylistPage
  \/ NextItem
  \/ VideosList

\* ------------------------------------------------- calls of the helpers

\* The strings is_within_today is called on.
WindowInputs == { Rfc3339(t) : t \in WindowInstants } \cup { "not a time", "" }

\* A call of is_within_today(published_at_str) at the instant t_now.
CallIsWithinToday ==
  /\ \E published_at_str \in WindowInputs, t_now \in CallInstants :
       /\ f_call' = [fn |-> "is_within_today", s |-> published_at_str, now |-> t_now]
       /\ f_out' = [fn |-> "is_within_today",
                    res |-> IsWithinToday(published_at_str, t_now)]
  /\ UNCHANGED << run_vars, start_vars, disc_vars >>

\* The counters and publish instants a row is built from on its own (no
\* quotient falls halfway between two roundings).
CounterInputs ==
  [viewCount : {0, 1, 3, 200, 1000}, likeCount : {0, 10}, commentCount : {0, 5}]

PublishedInputs == { ClockStart, ClockStart - 1, ClockStart - 2 * HourSecs }

\* Lines 423-450 for one video: the row built at the instant ClockStart.
CallBuildRow ==
  /\ \E st \in CounterInputs, published \in PublishedInputs :
       /\ f_call' = [fn |-> "build_row", st |-> st, published |-> published,
                     now |-> ClockStart]
       /\ f_out' = [fn |-> "build_row",
                    row |-> BuildRow("a", "Chan A", published, StrfTime(ClockStart),
                                     ClockStart, st)]
  /\ UNCHANGED << run_vars, start_vars, disc_vars >>

NextCalls ==
  \/ CallIsWithinToday
  \/ CallBuildRow

\* ------------------------------------------------------- specifications

\* No function has been called.
InitBench ==
  /\ f_call = [fn |-> "none"]
  /\ f_out = [fn |-> "none"]

\* The process after its first script run: the scheduler sleeps, a session is
\* open, and runs of run_once_and_append interleave.
Init == InitRun("sleep") /\ InitStarted /\ InitDisc /\ InitBench

Spec == Init /\ [][NextRun]_vars

\* No run of run_once_and_append is in progress.
NoRun == \A t \in Threads : ~Active(t)

\* The scheduler's call and the button's call when no run is in progress.
SchedulerWakeAlone == NoRun /\ SchedulerWake

RunNowAlone(t) == NoRun /\ RunNow(t)

\* The runs of run_once_and_append one at a time.
NextSolo ==
  \/ Tick
  \/ SchedulerWakeAlone
  \/ \E t \in Threads :
       \/ RunNowAlone(t)
       \/ ReadSheet(t)
       \/ ClearSheet(t)
       \/ AppendHeader(t)
       \/ RereadSheet(t)
       \/ Discover(t)
       \/ FetchAndBuild(t)
       \/ AppendRows(t)

SpecSolo == Init /\ [][NextSolo]_vars

InitLegacy ==
  /\ sheet \in { << LegacyHeader >>, << LegacyHeader, LegacyRow >> }
  /\ InitLocals("sleep")
  /\ InitStarted
  /\ InitDisc
  /\ InitBench

\* Runs one at a time over a worksheet of an earlier layout.
SpecLegacy == InitLegacy /\ [][NextSolo]_vars

\* The host clock reaches its next hour boundary. time.sleep(secs_to_next_hour)
\* of line 27 ends at the boundary it sleeps towards, so no further boundary
\* passes before the loop has woken; a run in progress lasts through it.
Leap ==
  /\ NextHour(now) <= NextHour(ClockStart) + (MaxHours - 1) * HourSecs
  /\ ~(pc[SchedThread] = "sleep" /\ now >= next_hour)
  /\ now' = NextHour(now)
  /\ UNCHANGED << sheet, runs, pc, next_hour, locals, outcome, history >>
  /\ UNCHANGED << start_vars, disc_vars, bench_vars >>

\* scheduler_loop and the "Run Now" button over hours of the host clock, the
\* runs one at a time.
NextSched ==
  \/ Leap
  \/ SchedulerWakeAlone
  \/ \E t \in Threads :
       \/ RunNowAlone(t)
       \/ ReadSheet(t)
       \/ ClearSheet(t)
       \/ AppendHeader(t)
       \/ RereadSheet(t)
       \/ Discover(t)
       \/ FetchAndBuild(t)
       \/ AppendRows(t)

SpecSched == Init /\ [][NextSched]_vars

\* Calls of the helpers on their own.
SpecCalls == Init /\ [][NextCalls]_vars

\* A fresh process and the script runs of its sessions.
InitFresh == InitRun("unstarted") /\ InitStart /\ InitDisc /\ InitBench

SpecStart == InitFresh /\ [][NextStart]_vars

\* One call of discover_shorts().
SpecDiscover == Init /\ [][NextDiscover]_vars

\* ------------------------------------------------------------- claims

IsPrefix(a, b) == Len(a) <= Len(b) /\ SubSeq(b, 1, Len(a)) = a

\* The (video_id, timestamp) pairs of the data rows of a sheet, by position.
StoredIds(all_data) == { DataRows(all_data)[i][1] : i \in 1 .. Len(DataRows(all_data)) }
StoredPairs(all_data) ==
  { << DataRows(all_data)[i][1], DataRows(all_data)[i][4] >> :
      i \in 1 .. Len(DataRows(all_data)) }

\* C1: in every reachable state of the sheet, under any interleaving of the
\* scheduler's and the manual runs, no two data rows have the same
\* (video_id, timestamp) pair.
C1_UniquePairs ==
  \A i, j \in 1 .. Len(DataRows(sheet)) :
    i # j =>
      << DataRows(sheet)[i][1], DataRows(sheet)[i][4] >>
        # << DataRows(sheet)[j][1], DataRows(sheet)[j][4] >>

\* C2: a run that overlaps no other run, discovers no new id and takes a
\* timestamp string already stored for every tracked id appends no row and
\* leaves the sheet as it was when the run began.
C2_Idempotent ==
  [][\A t \in Threads :
       ( /\ pc[t] = "fetch"
         /\ pc'[t] # "fetch"
         /\ solo[t]
         /\ tracked_ids[t] # {}
         /\ tracked_ids[t] = StoredIds(sheet0[t])
         /\ \A vid \in tracked_ids[t] :
              << vid, StrfTime(now) >> \in StoredPairs(sheet0[t]) )
       => pc'[t] # "append" /\ sheet' = sheet0[t]]_vars

\* C2's case: one thread alone has run, its latest run built a row for every
\* tracked id, found every one stored already and appended nothing.
C2_Witness ==
  \E t \in Threads :
    /\ outcome[t] = "all_dup"
    /\ ~Active(t)
    /\ \A u \in Threads \ {t} : outcome[u] = "none"
    /\ last_skipped = {}
    /\ ever_tracked # {}
    /\ ever_tracked = StoredIds(sheet)

\* C3: every id that was in the tracked-set of some run is in the tracked-set
\* of every later run (stated of the later runs that overlap no other run, so
\* that every earlier run had returned when the later one began).
C3_NeverShrinks ==
  \A t \in Threads :
    (pc[t] \in {"fetch", "append"} /\ solo[t]) => owed[t] \subseteq tracked_ids[t]

\* C4: when a run ends, however it ends, the data rows of the sheet have the
\* data rows of the sheet when the run began as a prefix.
C4_AppendOnly ==
  [][\A t \in Threads :
       (Active(t) /\ pc'[t] \in {"idle", "sleep", "dead"})
       => IsPrefix(DataRows(sheet0[t]), DataRows(sheet'))]_vars

\* C5: every stored row of an id carries the channel title and the published_at
\* string of the first row ever appended for that id.
C5_MetaImmutable ==
  \A i \in 1 .. Len(DataRows(sheet)) :
    LET r == DataRows(sheet)[i]
    IN  r[1] \in DOMAIN first_meta => << r[2], r[3] >> = first_meta[r[1]]

\* C8: when discover_shorts reports all-failed, the tracked-set of the run is
\* exactly the set of ids of the rows it read; when that set is not empty the
\* run does not stop there, it fetches counters, builds a row for every such id
\* that has counters, a publish instant and no stored (id, timestamp) pair, and
\* the append adds exactly those rows.
C8_DiscoveryFailureNotFatal ==
  [][\A t \in Threads :
       LET ids == { rows[t][i][1] : i \in 1 .. Len(rows[t]) }
       IN  /\ (pc[t] = "discover" /\ pc'[t] = "fetch" /\ no_shorts'[t])
                => tracked_ids'[t] = ids
           /\ (pc[t] = "discover" /\ outcome'[t] = "no_tracked") => ids = {}
           /\ (pc[t] = "fetch" /\ pc'[t] = "append" /\ no_shorts[t])
                => /\ \A vid \in ids :
                        ( /\ vid \in DOMAIN stats'[t]
                          /\ vid \in DOMAIN pub_past[t]
                          /\ \A i \in 1 .. Len(rows[t]) :
                               << rows[t][i][1], rows[t][i][4] >> # << vid, StrfTime(now) >> )
                        => \E i \in 1 .. Len(filtered'[t]) : filtered'[t][i][1] = vid
                   /\ \A i \in 1 .. Len(filtered'[t]) : filtered'[t][i][1] \in ids
           /\ (pc[t] = "append" /\ no_shorts[t] /\ outcome'[t] = "appended")
                => sheet' = sheet \o filtered[t]]_vars

\* C8's case: discovery reported all-failed and the run has built rows of
\* previously tracked ids, which it is about to append.
C8_Witness ==
  \E t \in Threads : pc[t] = "append" /\ no_shorts[t] /\ filtered[t] # << >>

\* C9: the ids the previous run skipped in Step 4 (no counters, or no publish
\* instant) are in the tracked-set of the next run (stated of the next runs
\* that overlap no other run, so that the previous run had returned).
C9_SkippedRetried ==
  \A t \in Threads :
    (pc[t] \in {"fetch", "append"} /\ solo[t]) => owed_skip[t] \subseteq tracked_ids[t]

\* The attempts of a finished retry_youtube_call that failed with HttpError.
HttpFailed(a) == a.status = "HttpError"

\* C6: retry_youtube_call executes the operation at most twice; a second
\* attempt is made only after the first failed with HttpError, and then exactly
\* one; after two such failures it returns None and raises nothing; a
\* successful attempt's response is what it returns.
C6_RetryOnce ==
  /\ Len(r_log) <= 2
  /\ Len(r_log) = 2 => HttpFailed(r_log[1])
  /\ r_busy => (Len(r_log) = 1 /\ HttpFailed(r_log[1]))
  /\ (~r_busy /\ r_log # << >>) =>
       LET last == r_log[Len(r_log)]
       IN  /\ HttpFailed(r_log[1]) => Len(r_log) = 2
           /\ HttpFailed(last) => (r_ret = None /\ d_pc # "raised")
           /\ last.status = "ok" => r_ret = last.resp

\* C6's case: both attempts failed and the call returned None to discovery.
C6_Witness ==
  /\ ~r_busy
  /\ Len(r_log) = 2
  /\ HttpFailed(r_log[1])
  /\ HttpFailed(r_log[2])
  /\ r_ret = None
  /\ d_pc # "raised"

\* C7: when a channel's info fetch or a page fetch fails, discover_shorts
\* returns at that channel empty mappings with the flag set, whatever it had
\* found, and asks for no later channel; the flag is set exactly when a fetch
\* failed or nothing was found, and clear only after every channel was paged to
\* its end with an item found.
C7_FailFast ==
  d_pc = "returned" =>
    /\ d_fatal # 0 =>
         /\ d_ret = [vtc |-> EmptyMap, vtp |-> EmptyMap, flag |-> TRUE]
         /\ d_visited = 1 .. d_fatal
         /\ d_done = 1 .. (d_fatal - 1)
    /\ d_ret.flag <=> (d_fatal # 0 \/ d_short = << >>)
    /\ d_ret.flag => (d_ret.vtc = EmptyMap /\ d_ret.vtp = EmptyMap)
    /\ ~d_ret.flag =>
         /\ d_done = 1 .. NumChannels
         /\ d_fatal = 0
         /\ d_short # << >>
         /\ DOMAIN d_ret.vtc = { d_short[i] : i \in 1 .. Len(d_short) }

\* C7's case: the first channel yielded a short item and the fetch of a later
\* channel failed.
C7_Witness ==
  /\ d_pc = "returned"
  /\ d_fatal > 1
  /\ d_short # << >>
  /\ d_ret.vtc = EmptyMap
  /\ d_ret.flag

\* C10: at most one scheduler_loop thread is ever started in a process.
C10_AtMostOneLoop == loops <= 1

\* The hour boundaries of the host clock that have passed since the scheduler
\* started.
BoundariesPassed == (now \div HourSecs) - (ClockStart \div HourSecs)

\* C11: scheduler_loop has called run_once_and_append once for every hour
\* boundary that has passed, whatever manual runs occur and however long a run
\* lasts: whenever the loop sleeps towards a boundary still to come, its calls
\* are as many as the boundaries that have passed.
C11_OncePerBoundary ==
  (pc[SchedThread] = "sleep" /\ now < next_hour) => sched_runs = BoundariesPassed

\* The rows of rs that carry vid.
RowsOf(rs, vid) == { i \in 1 .. Len(rs) : rs[i][1] = vid }

\* C12: a run that appends successfully adds to the sheet exactly one row for
\* each tracked id that has counters, a publish instant and, among the rows the
\* run read, none with the run's timestamp, and no other row; a run that
\* overlaps no other, begun with an empty sheet, with one tracked id that has
\* counters, leaves the sheet as the 9-column header and one row of that id.
C12_OneRowEach ==
  [][\A t \in Threads :
       (pc[t] = "append" /\ outcome'[t] = "appended") =>
         LET added == filtered[t]
             ts == added[1][4]
         IN  /\ sheet' = sheet \o added
             /\ \A i \in 1 .. Len(added) : added[i][1] \in tracked_ids[t]
             /\ \A vid \in tracked_ids[t] :
                  Cardinality(RowsOf(added, vid)) =
                    IF /\ vid \in DOMAIN stats[t]
                       /\ vid \in DOMAIN pub_past[t]
                       /\ << vid, ts >> \notin ExistingPairs(rows[t])
                      THEN 1 ELSE 0
             /\ (solo[t] /\ sheet0[t] = << >> /\ Cardinality(tracked_ids[t]) = 1
                   /\ tracked_ids[t] \subseteq DOMAIN stats[t])
                  => /\ Len(sheet') = 2
                     /\ sheet'[1] = Header
                     /\ Len(sheet'[1]) = 9
                     /\ sheet'[2][1] \in tracked_ids[t]]_vars

\* C12's case: the first run began with an empty sheet, tracked one id and
\* appended.
C12_Witness ==
  /\ runs = 1
  /\ \E t \in Threads : outcome[t] = "appended"
  /\ Len(sheet) = 2
  /\ sheet[1] = Header
  /\ Cardinality(ever_tracked) = 1

\* 00:00:00 of the date of t_now in the UTC+5:30 offset: the instant of the day
\* before t_now, t_now included, that is a whole number of days in that offset.
TodayWindowStart(t_now) ==
  CHOOSE m \in (t_now - DaySecs + 1) .. t_now : (m + IstOffset) % DaySecs = 0

\* C13: is_within_today(s) is true exactly when s denotes an instant t with
\* todayWindowStart <= t < todayWindowStart + 24h: true of the boundary, false
\* one second before it and exactly 24h after it, and false, nothing raised,
\* of a string that does not parse.
C13_TodayWindow ==
  f_call.fn = "is_within_today" =>
    LET start == TodayWindowStart(f_call.now)
        denoted == { t \in WindowInstants : Rfc3339(t) = f_call.s }
    IN  /\ f_out.res \in BOOLEAN
        /\ f_out.res <=> \E t \in denoted : start <= t /\ t < start + DaySecs
        /\ f_call.s = Rfc3339(start) => f_out.res
        /\ f_call.s = Rfc3339(start - 1) => ~f_out.res
        /\ f_call.s = Rfc3339(start + DaySecs) => ~f_out.res
        /\ f_call.s = Rfc3339(start + DaySecs - 1) => f_out.res
        /\ denoted = {} => ~f_out.res

\* C13's case: the call on the boundary itself, in the first second of an IST
\* day.
C13_Witness ==
  /\ f_call.fn = "is_within_today"
  /\ f_call.now = DaySecs - IstOffset
  /\ f_call.s = Rfc3339(f_call.now)
  /\ f_out.res

\* C14: a candidate whose details were fetched is recorded as a Short exactly
\* when its duration parses to at most 180 seconds or does not parse (0
\* seconds): "PT3M" is recorded, "PT3M1S" is not, an unparseable duration is.
C14_ShortForm ==
  [][(d_pc = "details" /\ d_pc' = "item" /\ ~r_ret'.none /\ r_ret'.items # << >>) =>
       LET duration_str == r_ret'.items[1].duration
           recorded == d_short' = Append(d_short, Head(d_items).videoId)
       IN  /\ recorded \/ d_short' = d_short
           /\ recorded <=> \/ ParseDuration(duration_str) = {}
                            \/ \E secs \in ParseDuration(duration_str) : secs <= 180
           /\ duration_str = "PT3M" => recorded
           /\ duration_str = "PT3M1S" => ~recorded
           /\ duration_str = "three minutes" => recorded]_vars

\* C14's case: a candidate of exactly 180 seconds has been recorded.
C14_Witness ==
  /\ d_pc = "item"
  /\ ~r_ret.none
  /\ r_ret.items # << >>
  /\ "duration" \in DOMAIN r_ret.items[1]
  /\ r_ret.items[1].duration = "PT3M"
  /\ d_short # << >>

\* C15: every row a run builds carries the VPH of the run's one observation
\* instant, the instant its timestamp column shows: viewCount divided by
\* max(observation instant - publish instant, 1 second) in hours, to two
\* decimals.
C15_VphAtObservation ==
  [][\A t \in Threads :
       (pc[t] = "fetch" /\ pc'[t] = "append") =>
         \A i \in 1 .. Len(filtered'[t]) :
           LET row == filtered'[t][i]
               vid == row[1]
               observed == CHOOSE o \in ParseRange : StrfTime(o) = row[4]
               elapsed == IF observed - pub_past[t][vid] > 1
                            THEN observed - pub_past[t][vid] ELSE 1
           IN  row[8] = Fixed2(stats'[t][vid].viewCount * HourSecs, elapsed)]_vars

\* d.dddd of a number of ten-thousandths.
TenThousandths(q) ==
  IntStr(q \div 10000) \o "." \o Digit((q \div 1000) % 10) \o Digit((q \div 100) % 10)
    \o Digit((q \div 10) % 10) \o Digit(q % 10)

\* C16: the engagement rate of a built row is 0 when viewCount is 0, whatever
\* the likes and comments, and otherwise (likeCount + commentCount) / viewCount
\* to four decimals; 200 views, 10 likes and 5 comments give 0.0750.
C16_EngagementRate ==
  f_call.fn = "build_row" =>
    LET views == f_call.st.viewCount
        acts == f_call.st.likeCount + f_call.st.commentCount
        rate == f_out.row[9]
    IN  /\ views = 0 => rate = "0.0000"
        /\ views > 0 =>
             \E q \in 0 .. 10000 * acts :
               /\ 2 * q * views - 20000 * acts <= views
               /\ 20000 * acts - 2 * q * views <= views
               /\ rate = TenThousandths(q)
        /\ (views = 200 /\ f_call.st.likeCount = 10 /\ f_call.st.commentCount = 5)
             => rate = "0.0750"

\* C16's case: a row built of no views, 10 likes and 5 comments.
C16_Witness ==
  /\ f_call.fn = "build_row"
  /\ f_call.st = [viewCount |-> 0, likeCount |-> 10, commentCount |-> 5]
  /\ f_out.row[9] = "0.0000"

\* C17: a run alone on the store that ends on a failure of reading the
\* store, of initialising the header or of appending leaves the store as it
\* was when the run began, or with the header initialisation completed.
C17_NoPartialMutation ==
  [][\A t \in Threads :
       (/\ solo[t]
        /\ outcome[t] = "running"
        /\ outcome'[t] \in { "read_err", "hdr_err", "append_err" })
         => sheet' \in { sheet0[t], << Header >>,
                         << Header >> \o DataRows(sheet0[t]) }]_vars

\* C18: the rows a run is about to append all carry the timestamp string of
\* the instant read before the first row was built, and the rows one run
\* appends all carry the same timestamp string.
C18_OneTimestamp ==
  [][\A t \in Threads :
       /\ (pc[t] = "fetch" /\ pc'[t] = "append") =>
            \A i \in 1 .. Len(filtered'[t]) : filtered'[t][i][4] = StrfTime(now)
       /\ (pc[t] = "append" /\ outcome'[t] = "appended") =>
            /\ Len(sheet') > Len(sheet)
            /\ \A i, j \in (Len(sheet) + 1) .. Len(sheet') : sheet'[i][4] = sheet'[j][4]]_vars

\* C18's case: the one run so far appended two rows while the clock advanced.
C18_Witness ==
  /\ runs = 1
  /\ \E t \in Threads : outcome[t] = "appended"
  /\ now > ClockStart
  /\ Len(sheet) = 3
  /\ sheet[2][1] # sheet[3][1]
  /\ sheet[2][4] = StrfTime(ClockStart)
  /\ sheet[3][4] = StrfTime(ClockStart)

\* C19: a run alone on the store that finds nothing to track stops there: it
\* goes on to fetch counters only with a non-empty tracked-set, the step
\* leaves the store alone, and the store's data rows are those of the start of
\* the run.
C19_EmptyTrackedStops ==
  [][\A t \in Threads :
       pc[t] = "discover" =>
         /\ pc'[t] = "fetch" => tracked_ids'[t] # {}
         /\ (solo[t] /\ outcome'[t] = "no_tracked") =>
              /\ sheet' = sheet
              /\ DataRows(sheet') = DataRows(sheet0[t])]_vars

\* C20: the scheduler thread is alive, whatever way its runs ended.
C20_LoopSurvives == pc[SchedThread] # "dead"

\* C21: every publish instant in the published mapping that discover_shorts
\* returns lies in today's window, 00:00:00 IST of the current date up to 24
\* hours later, the window the item's upload-history timestamp was tested
\* against.
C21_PublishedInWindow ==
  d_pc = "returned" =>
    \A vid \in DOMAIN d_ret.vtp :
      /\ MidnightIstUtc(now) <= d_ret.vtp[vid]
      /\ d_ret.vtp[vid] < MidnightIstUtc(now) + DaySecs

====
